---- MODULE Spec2Model ----
(***************************************************************************)
(* Model of the voice front end of the English trainer:                    *)
(*   - the capture hook useRecorder (web/src/hooks/useRecorder.js,         *)
(*     the VAD + start-lock + session-token iteration), and                *)
(*   - the utterance pipeline App.onBlob (src/App.jsx) that consumes the   *)
(*     recordings the hook delivers.                                       *)
(*                                                                         *)
(* Every getUserMedia call is an "acquisition" a \in Acqs.  The stream it  *)
(* returns and the MediaRecorder built on it are identified by the same    *)
(* a.  JavaScript is single threaded: one action is one task (a user call, *)
(* a promise continuation, a timer or a recorder event) run to its next    *)
(* await.                                                                  *)
(***************************************************************************)
EXTENDS Integers, Sequences, FiniteSets

\* Number of getUserMedia calls explored by Spec and LiveSpec.
MaxStarts == 2

\* Number of getUserMedia calls explored by WideSpec.
MaxAcq == MaxStarts + 1

Acqs == 1..MaxAcq

\* useRecorder({ maxSeconds: 60, onBlob }) in App.jsx
maxSeconds == 60

VARIABLES
    env,              \* what the page offers: "ok", "insecure", "nogum"
    mounted,          \* the component using the hook is mounted
    isRecording,      \* useState(false)
    isProcessing,     \* useState(false)
    error,            \* useState(null): TRUE when an error message is set
    startLockRef,     \* useRef(false)
    sessionIdRef,     \* useRef(0): the RecordingSession token
    mediaRecorderRef, \* useRef(null): 0 or the acquisition of the recorder
    streamRef,        \* useRef(null): 0 or the acquisition of the stream
    chunksRef,        \* useRef([]): sequence of recorders whose data it holds
    timerRef,         \* useRef(null): 0 or the handle of the max-length timer
    timers,           \* max-length timers that are armed (setTimeout pending)
    lockTimers,       \* number of pending setTimeout(() => lock = false, 0)
    acqCount,         \* number of getUserMedia calls made so far
    st,               \* st[a]: "none", "pending", "open", "closed", "failed"
    ph,               \* ph[a]: recorder "none", "recording", "stopData" (stopped,
                      \*        dataavailable queued), "stopStop" (stop event queued),
                      \*        "done", or "inactive" (built, never started)
    tok,              \* tok[a]: mySession of the recorder, 0 before it is set
    cap,              \* cap[a]: <<sessionId, questionId>> of the onBlob closure
    onBlobLock,       \* App: useRef(false), the busy flag
    pipe,             \* pipe[a]: pipeline run of the utterance of recorder a
    pipeSid,          \* pipe-local sid
    pipeRes,          \* pipeRes[a]: <<session_id, question_id>> of the sim/start reply
                      \*   the run of a is reading, <<0, 0>> before
    pipeQid,          \* pipe-local qid
    sessionId,        \* App: useState(null), 0 is null
    questionId,       \* App: useState(null), 0 is null
    srvSid,           \* server: sessions created
    srvQid,           \* server: questions created
    reqIdRef,         \* App: useRef(null): 0 or the run whose request id it holds
    pipeSubReq,       \* pipeSubReq[a]: X-Req-Id of the submit call of run a, 0 before
    pipeTtsReq,       \* pipeTtsReq[a]: X-Req-Id of the reply call of run a, 0 before
    question,         \* App: useState(""): 0 or the question whose text it holds
    lastScores,       \* App: useState(null): 0 or the question whose scores it holds
    statusErr,        \* App: status.kind === "err"
    ctl,              \* ctl[i]: the i-th remote call of the sim controls
    ctlCount,         \* number of remote calls the sim controls made so far
    scored,           \* history: the questions whose scores were received
    srvOwner,         \* server: srvOwner[q] is the session question q was made for
    spaceDown,        \* history: the last Space key event the document got was a keydown
    keyAcq,           \* history: 0 or the acquisition the last Space keydown started
    hidden,           \* document.hidden
    pcm,              \* the sample window of the analyser, in units of 1/1000
    level,            \* the loudness values reported, in dB, rounded down
    onceCount,        \* recordOnce: number of calls made so far
    onceSt,           \* recordOnce: onceSt[r] is the stream of call r, as st
    oncePh,           \* recordOnce: oncePh[r] is the recorder of call r, as ph
    onceTimer,        \* recordOnce: the setTimeout(..., maxMs) of call r is armed
    onceOut,          \* recordOnce: the promise call r returned: "none", "pending",
                      \*   "resolved", "rejected"
    now,              \* performance.now(), in clock units
    startedAtRef,     \* useRef(0): the clock when the recorder was started
    silenceStartRef,  \* useRef(null): 0 or the clock of the first quiet tick
    rafRef,           \* useRef(null): 0 or the metering loop whose frame it holds
    meters,           \* metering loops with a requestAnimationFrame pending
    audioOk,          \* AudioContext and the analyser can be set up
    vadMinStart,      \* vad.minStartMs, in clock units
    vadSilence,       \* vad.silenceMs, in clock units
    loudSince,        \* history: a tick above the threshold ran since
                      \*   silenceStartRef was last set from null
    vadStops,         \* history: vadStops[a] counts the mr.stop() calls the
                      \*   metering tick made on recorder a
    cancelledIn,      \* history: cancelledIn[a] is "acq" / "rec" when cancel() ran while
                      \*   a was being acquired / was recording, else "no"
    lastTask          \* history: "start" after a start() that called getUserMedia,
                      \*   "start2" after start() calls right behind such a start(),
                      \*   "startFail" after a start() that threw at its prechecks,
                      \*   "stale" after a recorder callback run under a stale token,
                      \*   "tick" after a run of the metering tick,
                      \*   "stop" after a stop() call that stopped the recorder,
                      \*   "stop2" after stop() calls right behind it that returned
                      \*   at the guard,
                      \*   else "other"

hookVars == <<isRecording, isProcessing, error, startLockRef, sessionIdRef,
              mediaRecorderRef, streamRef, chunksRef, timerRef>>
platVars == <<env, mounted, timers, lockTimers, acqCount, st, ph, tok, cap>>
appVars  == <<onBlobLock, pipe, pipeSid, pipeRes, pipeQid, sessionId, questionId, srvSid, srvQid,
              reqIdRef, pipeSubReq, pipeTtsReq>>
vadVars  == <<now, startedAtRef, silenceStartRef, rafRef, meters, audioOk,
              vadMinStart, vadSilence, loudSince>>
histVars == <<cancelledIn, lastTask, vadStops>>
ctlVars  == <<question, lastScores, ctl, ctlCount, scored>>
keyVars  == <<spaceDown, keyAcq>>
onceVars == <<onceCount, onceSt, oncePh, onceTimer, onceOut>>
uiVars   == <<hidden, pcm, level, onceVars>>
vars == <<hookVars, platVars, appVars, vadVars, histVars, ctlVars, statusErr,
          srvOwner, keyVars, uiVars>>

Envs == {"ok", "insecure", "nogum"}
\* the awaits of a pipeline run: a request ("start", "submit", "reply"), the
\* body of its response ("startBody", "submitBody", "replyBody"), playback
PipeRunning == {"start", "startBody", "submit", "submitBody", "reply", "replyBody",
                "play"}
PipeDone == {"ok", "err"}

\* largest clock value explored
MaxTime == 5

\* getUserMedia calls explored under the clock
MaxVadStarts == 1

\* vad.minStartMs and vad.silenceMs are options of the hook: the values
\* explored, in clock units
MinStartChoices == {0, 1}
SilenceChoices == {1, 2}

\* Number of recordOnce calls explored by OnceSpec.
MaxOnce == 3

OnceIds == 1..MaxOnce

\* Number of samples of the analyser window explored by LevelSpec.
WinLen == 3

\* samples explored, in units of 1/1000: silence, the smallest value, a quiet
\* sample, negative full scale, and one beyond full scale
Amps == {-1000, 0, 1, 30, 10000}

Windows == [1..WinLen -> Amps]

\* new Float32Array(analyser.fftSize): all zero
ZeroWindow == [i \in 1..WinLen |-> 0]

\* Number of remote calls of the sim controls explored by AppSpec.
MaxCtl == 3

CtlIds == 1..MaxCtl

\* a call of the sim controls that was not made, or has settled.  A call
\* holds its kind and arguments; got tells that its fetch resolved with ok and
\* the body is being read, rsid and rqid are the session_id and question_id
\* of that response
NoCall == [kind |-> "none", sid |-> 0, qid |-> 0, got |-> FALSE, rsid |-> 0, rqid |-> 0]

\* a call of the given kind and arguments whose fetch is outstanding
NewCall(kind, sid, qid) ==
    [kind |-> kind, sid |-> sid, qid |-> qid, got |-> FALSE, rsid |-> 0, rqid |-> 0]

\* the hook and the App after the first render
InitEngine ==
    /\ env \in Envs
    /\ mounted = TRUE
    /\ isRecording = FALSE
    /\ isProcessing = FALSE
    /\ error = FALSE
    /\ startLockRef = FALSE
    /\ sessionIdRef = 0
    /\ mediaRecorderRef = 0
    /\ streamRef = 0
    /\ chunksRef = <<>>
    /\ timerRef = 0
    /\ timers = {}
    /\ lockTimers = 0
    /\ acqCount = 0
    /\ st = [a \in Acqs |-> "none"]
    /\ ph = [a \in Acqs |-> "none"]
    /\ tok = [a \in Acqs |-> 0]
    /\ cap = [a \in Acqs |-> <<0, 0>>]
    /\ onBlobLock = FALSE
    /\ pipe = [a \in Acqs |-> "none"]
    /\ pipeSid = [a \in Acqs |-> 0]
    /\ pipeRes = [a \in Acqs |-> <<0, 0>>]
    /\ pipeQid = [a \in Acqs |-> 0]
    /\ sessionId = 0
    /\ questionId = 0
    /\ srvSid = 0
    /\ srvQid = 0
    /\ reqIdRef = 0
    /\ pipeSubReq = [a \in Acqs |-> 0]
    /\ pipeTtsReq = [a \in Acqs |-> 0]
    /\ cancelledIn = [a \in Acqs |-> "no"]
    /\ lastTask = "other"
    /\ now = 1
    /\ startedAtRef = 0
    /\ silenceStartRef = 0
    /\ rafRef = 0
    /\ meters = {}
    /\ loudSince = FALSE
    /\ vadStops = [a \in Acqs |-> 0]
    /\ question = 0
    /\ lastScores = 0
    /\ statusErr = FALSE
    /\ ctl = [i \in CtlIds |-> NoCall]
    /\ ctlCount = 0
    /\ scored = {}
    /\ srvOwner = <<>>
    /\ spaceDown = FALSE
    /\ keyAcq = 0
    /\ hidden = FALSE
    /\ level = <<>>
    /\ onceCount = 0
    /\ onceSt = [r \in OnceIds |-> "none"]
    /\ oncePh = [r \in OnceIds |-> "none"]
    /\ onceTimer = [r \in OnceIds |-> FALSE]
    /\ onceOut = [r \in OnceIds |-> "none"]

\* audio analysis available, one choice of the vad options
Init ==
    /\ InitEngine
    /\ pcm = ZeroWindow
    /\ audioOk = TRUE
    /\ vadMinStart = 1
    /\ vadSilence = 2

\* every choice of the vad options, audio analysis available or not
VadInit ==
    /\ InitEngine
    /\ pcm = ZeroWindow
    /\ audioOk \in BOOLEAN
    /\ vadMinStart \in MinStartChoices
    /\ vadSilence \in SilenceChoices

----------------------------------------------------------------------------
(* teardown(): stop the tracks of streamRef.current, clear the max timer.  *)

\* stream states after teardown, given the stream states and streamRef
TeardownSt(stv, sref) ==
    [x \in Acqs |-> IF x = sref /\ stv[x] = "open" THEN "closed" ELSE stv[x]]

\* armed timers after teardown: clearTimeout(timerRef.current)
TeardownTimers(tm, tref) == tm \ {tref}

\* _startMetering(stream) of acquisition a: the loops with a frame pending,
\* and rafRef; when the audio set-up throws it only warns
\* Mutant of StartMeteringMeters: the loop runs although the set-up threw.
StartMeteringMeters_Always(ms, a) == ms \cup {a}

StartMeteringMeters(ms, a) == IF audioOk THEN ms \cup {a} ELSE ms

StartMeteringRaf(raf, a) == IF audioOk THEN a ELSE raf

\* the metering part of teardown, given the loops pending and rafRef:
\* cancelAnimationFrame(rafRef.current), silenceStartRef.current = null
TeardownVad(ms, raf) ==
    /\ meters' = ms \ {raf}
    /\ rafRef' = 0
    /\ silenceStartRef' = 0
    /\ loudSince' = FALSE
    /\ UNCHANGED <<now, startedAtRef, audioOk, vadMinStart, vadSilence>>

\* useEffect(..., [isRecording, isProcessing]) of App: when the rendered
\* isRecording changed to rec the status is set to a kind other than "err"
\* (isProcessing is false at every render)
StatusAfterRender(rec) == IF rec # isRecording THEN FALSE ELSE statusErr

\* Mutant of IsRecordingState: any recorder the ref holds counts as recording.
IsRecordingState_AnyRecorder(m) == m # 0

\* mr.state === "recording"
IsRecordingState(m) == m # 0 /\ ph[m] = "recording"

\* mr.stop() on recorder m: state becomes inactive; dataavailable, then stop, are queued
MrStop(phv, m) == [phv EXCEPT ![m] = "stopData"]

----------------------------------------------------------------------------
(* start()                                                                 *)

\* Mutant of StartGuard: the guard without the start lock.
StartGuard_NoLock == ~(isRecording \/ isProcessing)

\* Mutant of StartGuard: the guard also refuses while the App's busy flag is set.
StartGuard_BusyBlocks == ~(isRecording \/ isProcessing \/ startLockRef \/ onBlobLock)

StartGuard == ~(isRecording \/ isProcessing \/ startLockRef)

\* start(), with at most limit getUserMedia calls explored
StartBody(limit) ==
    /\ mounted
    /\ IF ~StartGuard
       THEN \* return
            /\ lastTask' = IF lastTask \in {"start", "start2"} THEN "start2" ELSE "other"
            /\ UNCHANGED <<hookVars, platVars, appVars, cancelledIn, vadStops>>
       ELSE IF env # "ok"
       THEN \* hasSecureMicSupport() false, or no getUserMedia: lock taken and dropped, throw
            /\ error' = TRUE
            /\ startLockRef' = FALSE
            /\ lastTask' = "startFail"
            /\ UNCHANGED <<isRecording, isProcessing, sessionIdRef, mediaRecorderRef,
                           streamRef, chunksRef, timerRef, platVars, appVars, cancelledIn, vadStops>>
       ELSE \* await navigator.mediaDevices.getUserMedia(constraints)
            /\ acqCount < limit
            /\ startLockRef' = TRUE
            /\ error' = FALSE
            /\ acqCount' = acqCount + 1
            /\ st' = [st EXCEPT ![acqCount + 1] = "pending"]
            /\ cap' = [cap EXCEPT ![acqCount + 1] = <<sessionId, questionId>>]
            /\ lastTask' = IF lastTask \in {"start", "start2"} THEN "start2" ELSE "start"
            /\ UNCHANGED <<isRecording, isProcessing, sessionIdRef, mediaRecorderRef,
                           streamRef, chunksRef, timerRef, env, mounted, timers,
                           lockTimers, ph, tok, appVars, cancelledIn, vadStops>>
    /\ UNCHANGED vadVars
    /\ UNCHANGED <<ctlVars, srvOwner, uiVars, statusErr>>

\* start() called by the record button
StartCall(limit) == StartBody(limit) /\ UNCHANGED keyVars

Start == StartCall(MaxStarts)

StartVad == StartCall(MaxVadStarts)

StartWide == StartCall(MaxAcq)

\* getUserMedia resolved and the recorder was set up: lines 211-285, then finally
AcquireResolve(a) ==
    /\ st[a] = "pending"
    /\ st' = [st EXCEPT ![a] = "open"]
    /\ streamRef' = a
    /\ chunksRef' = <<>>
    /\ sessionIdRef' = sessionIdRef + 1
    /\ tok' = [tok EXCEPT ![a] = sessionIdRef + 1]
    /\ mediaRecorderRef' = a
    /\ ph' = [ph EXCEPT ![a] = "recording"]
    /\ isRecording' = TRUE
    /\ IF maxSeconds > 0
       THEN timerRef' = a /\ timers' = timers \cup {a}
       ELSE UNCHANGED <<timerRef, timers>>
    /\ lockTimers' = lockTimers + 1
    /\ lastTask' = "other"
    /\ UNCHANGED <<isProcessing, error, startLockRef, env, mounted, acqCount, cap,
                   appVars, cancelledIn, vadStops>>
    /\ meters' = StartMeteringMeters(meters, a)
    /\ rafRef' = StartMeteringRaf(rafRef, a)
    /\ startedAtRef' = now
    /\ UNCHANGED <<now, silenceStartRef, audioOk, vadMinStart, vadSilence, loudSince>>
    /\ statusErr' = StatusAfterRender(TRUE)
    /\ UNCHANGED <<ctlVars, srvOwner, keyVars, uiVars>>

\* getUserMedia resolved but new MediaRecorder(...) threw: catch, finally
AcquireSetupThrow(a) ==
    /\ st[a] = "pending"
    /\ st' = TeardownSt([st EXCEPT ![a] = "open"], a)
    /\ streamRef' = 0
    /\ timers' = TeardownTimers(timers, timerRef)
    /\ timerRef' = 0
    /\ error' = TRUE
    /\ isRecording' = FALSE
    /\ isProcessing' = FALSE
    /\ startLockRef' = FALSE
    /\ lockTimers' = lockTimers + 1
    /\ lastTask' = "other"
    /\ UNCHANGED <<sessionIdRef, mediaRecorderRef, chunksRef, env, mounted, acqCount,
                   ph, tok, cap, appVars, cancelledIn, vadStops>>
    /\ TeardownVad(StartMeteringMeters(meters, a), StartMeteringRaf(rafRef, a))
    /\ statusErr' = StatusAfterRender(FALSE)
    /\ UNCHANGED <<ctlVars, srvOwner, keyVars, uiVars>>

\* getUserMedia resolved, the recorder was built and took its token, but
\* mr.start() threw: catch, finally.  The recorder stays inactive.
AcquireStartThrow(a) ==
    /\ st[a] = "pending"
    /\ st' = TeardownSt([st EXCEPT ![a] = "open"], a)
    /\ streamRef' = 0
    /\ chunksRef' = <<>>
    /\ sessionIdRef' = sessionIdRef + 1
    /\ tok' = [tok EXCEPT ![a] = sessionIdRef + 1]
    /\ mediaRecorderRef' = a
    /\ ph' = [ph EXCEPT ![a] = "inactive"]
    /\ timers' = TeardownTimers(timers, timerRef)
    /\ timerRef' = 0
    /\ error' = TRUE
    /\ isRecording' = FALSE
    /\ isProcessing' = FALSE
    /\ startLockRef' = FALSE
    /\ lockTimers' = lockTimers + 1
    /\ lastTask' = "other"
    /\ UNCHANGED <<env, mounted, acqCount, cap, appVars, cancelledIn, vadStops>>
    /\ TeardownVad(StartMeteringMeters(meters, a), StartMeteringRaf(rafRef, a))
    /\ statusErr' = StatusAfterRender(FALSE)
    /\ UNCHANGED <<ctlVars, srvOwner, keyVars, uiVars>>

\* getUserMedia rejected (device unavailable, permission denied): catch, finally
AcquireReject(a) ==
    /\ st[a] = "pending"
    /\ st' = TeardownSt([st EXCEPT ![a] = "failed"], streamRef)
    /\ streamRef' = 0
    /\ timers' = TeardownTimers(timers, timerRef)
    /\ timerRef' = 0
    /\ error' = TRUE
    /\ isRecording' = FALSE
    /\ isProcessing' = FALSE
    /\ startLockRef' = FALSE
    /\ lockTimers' = lockTimers + 1
    /\ lastTask' = "other"
    /\ UNCHANGED <<sessionIdRef, mediaRecorderRef, chunksRef, env, mounted, acqCount,
                   ph, tok, cap, appVars, cancelledIn, vadStops>>
    /\ TeardownVad(meters, rafRef)
    /\ statusErr' = StatusAfterRender(FALSE)
    /\ UNCHANGED <<ctlVars, srvOwner, keyVars, uiVars>>

\* Mutant of LockTimerFire: the deferred callback without the release.
LockTimerFire_NoRelease ==
    /\ lockTimers > 0
    /\ lockTimers' = lockTimers - 1
    /\ lastTask' = "other"
    /\ UNCHANGED <<hookVars, env, mounted, timers, acqCount, st, ph, tok, cap,
                   appVars, vadVars, cancelledIn, vadStops, ctlVars, statusErr,
                   srvOwner, keyVars, uiVars>>

\* setTimeout(() => { startLockRef.current = false; }, 0) of a finished start()
LockTimerFire ==
    /\ lockTimers > 0
    /\ lockTimers' = lockTimers - 1
    /\ startLockRef' = FALSE
    /\ lastTask' = "other"
    /\ UNCHANGED <<isRecording, isProcessing, error, sessionIdRef, mediaRecorderRef,
                   streamRef, chunksRef, timerRef, env, mounted, timers, acqCount,
                   st, ph, tok, cap, appVars, cancelledIn, vadStops>>
    /\ UNCHANGED vadVars
    /\ UNCHANGED <<ctlVars, srvOwner, keyVars, uiVars, statusErr>>

----------------------------------------------------------------------------
(* stop(), cancel(), the max-length timer, unmount                         *)

StopBody ==
    /\ mounted
    /\ IF ~IsRecordingState(mediaRecorderRef)
       THEN \* return
            /\ lastTask' = IF lastTask \in {"stop", "stop2"} THEN "stop2" ELSE "other"
            /\ UNCHANGED <<hookVars, platVars, appVars, cancelledIn, vadStops>>
       ELSE /\ ph' = MrStop(ph, mediaRecorderRef)
            /\ timers' = TeardownTimers(timers, timerRef)
            /\ timerRef' = 0
            /\ lastTask' = "stop"
            /\ UNCHANGED <<isRecording, isProcessing, error, startLockRef, sessionIdRef,
                           mediaRecorderRef, streamRef, chunksRef, env, mounted,
                           lockTimers, acqCount, st, tok, cap, appVars,
                           cancelledIn, vadStops>>
    /\ UNCHANGED vadVars
    /\ UNCHANGED <<ctlVars, srvOwner, uiVars, statusErr>>

\* stop() called by the record button
Stop == StopBody /\ UNCHANGED keyVars

\* cancel()
CancelBody ==
    /\ mounted
    /\ chunksRef' = <<>>
    /\ IF IsRecordingState(mediaRecorderRef)
       THEN ph' = MrStop(ph, mediaRecorderRef)
       ELSE UNCHANGED ph
    /\ cancelledIn' = [a \in Acqs |->
                          IF st[a] = "pending" THEN "acq"
                          ELSE IF a = mediaRecorderRef /\ ph[a] = "recording" THEN "rec"
                          ELSE cancelledIn[a]]
    /\ mediaRecorderRef' = 0
    /\ isRecording' = FALSE
    /\ isProcessing' = FALSE
    /\ st' = TeardownSt(st, streamRef)
    /\ streamRef' = 0
    /\ timers' = TeardownTimers(timers, timerRef)
    /\ timerRef' = 0
    /\ lastTask' = "other"
    /\ UNCHANGED <<error, startLockRef, sessionIdRef, env, mounted, lockTimers,
                   acqCount, tok, cap, appVars, vadStops>>
    /\ TeardownVad(meters, rafRef)
    /\ statusErr' = StatusAfterRender(FALSE)
    /\ UNCHANGED <<ctlVars, srvOwner, uiVars>>

\* cancel() called by the consumer
Cancel == CancelBody /\ UNCHANGED keyVars

\* the callback of setTimeout(..., maxSeconds * 1000) armed by acquisition a
MaxTimerFire(a) ==
    /\ a \in timers
    /\ timers' = timers \ {a}
    /\ IF IsRecordingState(mediaRecorderRef)
       THEN ph' = MrStop(ph, mediaRecorderRef)
       ELSE UNCHANGED ph
    /\ lastTask' = "other"
    /\ UNCHANGED <<hookVars, env, mounted, lockTimers, acqCount, st, tok, cap,
                   appVars, cancelledIn, vadStops>>
    /\ UNCHANGED vadVars
    /\ UNCHANGED <<ctlVars, srvOwner, keyVars, uiVars, statusErr>>

\* useEffect(() => teardown, [teardown]): the cleanup run at unmount
Unmount ==
    /\ mounted
    /\ mounted' = FALSE
    /\ st' = TeardownSt(st, streamRef)
    /\ streamRef' = 0
    /\ timers' = TeardownTimers(timers, timerRef)
    /\ timerRef' = 0
    /\ lastTask' = "other"
    /\ UNCHANGED <<isRecording, isProcessing, error, startLockRef, sessionIdRef,
                   mediaRecorderRef, chunksRef, env, lockTimers, acqCount, ph, tok,
                   cap, appVars, cancelledIn, vadStops>>
    /\ TeardownVad(meters, rafRef)
    /\ UNCHANGED <<ctlVars, srvOwner, keyVars, uiVars, statusErr>>

\* the tracks of the stream recorder a records were stopped by a teardown:
\* the recorder becomes inactive and queues dataavailable, then stop
TrackEndStop(a) ==
    /\ ph[a] = "recording"
    /\ st[a] = "closed"
    /\ ph' = MrStop(ph, a)
    /\ lastTask' = "other"
    /\ UNCHANGED <<hookVars, env, mounted, timers, lockTimers, acqCount, st, tok, cap,
                   appVars, vadVars, cancelledIn, vadStops>>
    /\ UNCHANGED <<ctlVars, srvOwner, keyVars, uiVars, statusErr>>

----------------------------------------------------------------------------
(* The hotkeys effect (enableHotkeys defaults to true) and the             *)
(* visibilitychange handler (autoStopOnBlur defaults to true).  The        *)
(* listeners are re-registered at every render, so they read the           *)
(* isRecording and isProcessing of the latest render.                      *)

\* keydown of Space, not a repeat: "if (!isRecording && !isProcessing) start();"
KeyDownSpace ==
    /\ mounted
    /\ spaceDown' = TRUE
    /\ IF ~isRecording /\ ~isProcessing
       THEN /\ StartBody(MaxStarts)
            /\ keyAcq' = IF acqCount' # acqCount THEN acqCount' ELSE 0
       ELSE /\ keyAcq' = 0
            /\ lastTask' = "other"
            /\ UNCHANGED <<hookVars, platVars, appVars, vadVars, cancelledIn, vadStops,
                           ctlVars, srvOwner, uiVars, statusErr>>

\* "if (isRecording) stop();" of the keyup handler
KeyUpStops == isRecording

\* keyup of Space
KeyUpSpace ==
    /\ mounted
    /\ spaceDown' = FALSE
    /\ keyAcq' = keyAcq
    /\ IF KeyUpStops
       THEN StopBody
       ELSE /\ lastTask' = "other"
            /\ UNCHANGED <<hookVars, platVars, appVars, vadVars, cancelledIn, vadStops,
                           ctlVars, srvOwner, uiVars, statusErr>>

\* "if (isRecording) cancel();" of the keydown handler
KeyEscapeCancels == isRecording

\* keydown of Escape
KeyEscape ==
    /\ mounted
    /\ UNCHANGED keyVars
    /\ IF KeyEscapeCancels
       THEN CancelBody
       ELSE /\ lastTask' = "other"
            /\ UNCHANGED <<hookVars, platVars, appVars, vadVars, cancelledIn, vadStops,
                           ctlVars, srvOwner, uiVars, statusErr>>

\* Mutant of HiddenStops: the handler without the state check.
HiddenStops_NoStateCheck(hid) == hid /\ mediaRecorderRef # 0

\* "document.hidden && mediaRecorderRef.current?.state === "recording""
HiddenStops(hid) == hid /\ IsRecordingState(mediaRecorderRef)

\* visibilitychange: the tab is hidden or shown again
VisibilityChange ==
    /\ mounted
    /\ hidden' = ~hidden
    /\ IF HiddenStops(~hidden)
       THEN ph' = MrStop(ph, mediaRecorderRef)
       ELSE UNCHANGED ph
    /\ lastTask' = "other"
    /\ UNCHANGED <<hookVars, env, mounted, timers, lockTimers, acqCount, st, tok, cap,
                   appVars, vadVars, cancelledIn, vadStops, ctlVars, srvOwner,
                   keyVars, pcm, level, onceVars, statusErr>>

----------------------------------------------------------------------------
(* The metering loop: tick() of _startMetering, and the clock              *)

\* startedMs = now - (startedAtRef.current || now)
StartedMs == now - (IF startedAtRef = 0 THEN now ELSE startedAtRef)

\* startedMs >= minStart
PastGrace == StartedMs >= vadMinStart

\* silenceStartRef.current after a tick that measured loud (db > thresholdDb)
SilenceStartAfterTick(loud) ==
    IF ~PastGrace THEN silenceStartRef
    ELSE IF loud THEN 0
    ELSE IF silenceStartRef = 0 THEN now
    ELSE silenceStartRef

\* silentFor >= vad.silenceMs, on a quiet tick past the grace period
VadFires(loud) ==
    /\ PastGrace
    /\ ~loud
    /\ now - SilenceStartAfterTick(loud) >= vadSilence

\* Mutant of TickStops: the tick without the mr.state === "recording" check.
TickStops_NoStateCheck(loud) == VadFires(loud) /\ mediaRecorderRef # 0

\* the tick calls mr.stop()
TickStops(loud) == VadFires(loud) /\ IsRecordingState(mediaRecorderRef)

\* tick() of the metering loop of acquisition a (vad.enabled) after it has
\* measured the window: the silence bookkeeping, the stop and the next frame
TickBody(a, loud) ==
    /\ a \in meters
    /\ silenceStartRef' = SilenceStartAfterTick(loud)
    /\ loudSince' = IF SilenceStartAfterTick(loud) = 0 \/ silenceStartRef = 0
                    THEN FALSE
                    ELSE loudSince \/ loud
    /\ IF TickStops(loud)
       THEN /\ ph' = MrStop(ph, mediaRecorderRef)
            /\ vadStops' = [vadStops EXCEPT ![mediaRecorderRef] = @ + 1]
       ELSE UNCHANGED <<ph, vadStops>>
    /\ rafRef' = a
    /\ lastTask' = "tick"
    /\ UNCHANGED <<hookVars, env, mounted, timers, lockTimers, acqCount, st, tok, cap,
                   appVars, now, startedAtRef, meters, audioOk, vadMinStart,
                   vadSilence, cancelledIn>>
    /\ UNCHANGED <<ctlVars, srvOwner, keyVars, hidden, onceVars, statusErr>>

\* one run of tick(), the measured window left out: loud or not
Tick(a) ==
    /\ \E loud \in BOOLEAN : TickBody(a, loud)
    /\ UNCHANGED <<pcm, level>>

\* the clock moves on
Advance ==
    /\ now < MaxTime
    /\ now' = now + 1
    /\ lastTask' = "other"
    /\ UNCHANGED <<hookVars, platVars, appVars, startedAtRef, silenceStartRef, rafRef,
                   meters, audioOk, vadMinStart, vadSilence, loudSince, cancelledIn,
                   vadStops>>
    /\ UNCHANGED <<ctlVars, srvOwner, keyVars, uiVars, statusErr>>

----------------------------------------------------------------------------
(* The recorder's events: mr.ondataavailable and mr.onstop                 *)

\* Mutant of IsStale: the callbacks without the token comparison.
IsStale_NoCheck(a) == FALSE

\* "if (sessionIdRef.current !== mySession) return;" of both callbacks
IsStale(a) == sessionIdRef # tok[a]

\* e.data.size of the dataavailable event
DataSizes == {0, 1}

\* timesliceMs = 0 and no onChunk (App.jsx passes neither): push to chunksRef
OnDataAvailable(a) ==
    /\ ph[a] = "stopData"
    /\ ph' = [ph EXCEPT ![a] = "stopStop"]
    /\ \E size \in DataSizes :
          IF IsStale(a) \/ size = 0
          THEN UNCHANGED chunksRef
          ELSE chunksRef' = Append(chunksRef, a)
    /\ lastTask' = IF IsStale(a) THEN "stale" ELSE "other"
    /\ UNCHANGED <<isRecording, isProcessing, error, startLockRef, sessionIdRef,
                   mediaRecorderRef, streamRef, timerRef, env, mounted, timers,
                   lockTimers, acqCount, st, tok, cap, appVars, cancelledIn, vadStops>>
    /\ UNCHANGED vadVars
    /\ UNCHANGED <<ctlVars, srvOwner, keyVars, uiVars, statusErr>>

\* App.onBlob up to its first await, called with the closure values sid, qid:
\* the busy flag after the call
OnBlobLockAfterCall(lock) == IF lock THEN FALSE ELSE TRUE

\* Mutant of OnBlobRun: the call without "if (onBlobLock.current) return;".
OnBlobRun_NoLockCheck(lock, sid, qid) ==
    IF sid = 0 \/ qid = 0 THEN "start" ELSE "submit"

\* reqIdRef.current after the call made with the utterance of recorder a: an
\* admitted call stores a fresh identifier, named a here
OnBlobReqId(lock, req, a) == IF lock THEN req ELSE a

\* the pipeline run the call starts
OnBlobRun(lock, sid, qid) ==
    IF lock THEN "rejected"
    ELSE IF sid = 0 \/ qid = 0 THEN "start" ELSE "submit"

\* "!finalBlob || finalBlob.size === 0": only events with data are buffered
BlobEmpty(chunks) == chunks = <<>>

\* mr.onstop.  App.onBlob starts an async function it does not await and
\* returns undefined, so "await onBlob(finalBlob)" resumes in the microtask
\* right behind the handler: finally { setIsProcessing(false); teardown(); }
\* runs before any other task.
OnStop(a) ==
    /\ ph[a] = "stopStop"
    /\ ph' = [ph EXCEPT ![a] = "done"]
    /\ lastTask' = IF IsStale(a) THEN "stale" ELSE "other"
    /\ IF IsStale(a)
       THEN UNCHANGED <<hookVars, env, mounted, timers, lockTimers, acqCount, st,
                        tok, cap, appVars, vadVars, cancelledIn, vadStops>>
       ELSE /\ chunksRef' = <<>>
            /\ TeardownVad(meters, rafRef)
            /\ mediaRecorderRef' = 0
            /\ isRecording' = FALSE
            /\ isProcessing' = FALSE
            /\ st' = TeardownSt(st, streamRef)
            /\ streamRef' = 0
            /\ timers' = TeardownTimers(timers, timerRef)
            /\ timerRef' = 0
            /\ IF BlobEmpty(chunksRef)
               THEN \* finalBlob.size is 0: onBlob is not called
                    UNCHANGED appVars
               ELSE \* onBlob(finalBlob)
                    /\ onBlobLock' = OnBlobLockAfterCall(onBlobLock)
                    /\ pipe' = [pipe EXCEPT ![a] = OnBlobRun(onBlobLock, cap[a][1], cap[a][2])]
                    /\ pipeSid' = [pipeSid EXCEPT ![a] = cap[a][1]]
                    /\ pipeQid' = [pipeQid EXCEPT ![a] = cap[a][2]]
                    /\ reqIdRef' = OnBlobReqId(onBlobLock, reqIdRef, a)
                    /\ pipeSubReq' = IF OnBlobRun(onBlobLock, cap[a][1], cap[a][2]) = "submit"
                                     THEN [pipeSubReq EXCEPT ![a] = a]
                                     ELSE pipeSubReq
                    /\ UNCHANGED <<sessionId, questionId, srvSid, srvQid, pipeTtsReq, pipeRes>>
            /\ UNCHANGED <<error, startLockRef, sessionIdRef, env, mounted, lockTimers,
                           acqCount, tok, cap, cancelledIn, vadStops>>
    /\ statusErr' = IF IsStale(a) THEN statusErr
                     ELSE IF ~BlobEmpty(chunksRef) /\ ~onBlobLock
                     THEN \* setStatus({ kind: "warn", text: "Transcribing..." })
                          FALSE
                     ELSE StatusAfterRender(FALSE)
    /\ UNCHANGED <<ctlVars, srvOwner, keyVars, uiVars>>

----------------------------------------------------------------------------
(* App.onBlob after its first await: lazy start, submit, reply, playback   *)

\* Mutant of OnBlobLockAfterRun: the lock released on the success path only.
OnBlobLockAfterRun_SuccessOnly(outcome) == outcome = "err"

\* finally { setIsProcessing(false); onBlobLock.current = false; }
OnBlobLockAfterRun(outcome) == FALSE

\* Mutant of StatusAfterFailure: the catch without setStatus.
StatusAfterFailure_Silent(outcome) == IF outcome = "err" THEN statusErr ELSE FALSE

\* catch { setStatus({ kind: "err", ... }) }, else the status of the success path
StatusAfterFailure(outcome) == outcome = "err"

\* the run of a leaves the pipeline with the given outcome: (catch and) finally
PipeExit(a, outcome) ==
    /\ pipe' = [pipe EXCEPT ![a] = outcome]
    /\ onBlobLock' = OnBlobLockAfterRun(outcome)
    /\ isProcessing' = FALSE
    /\ lastTask' = "other"
    /\ UNCHANGED <<isRecording, error, startLockRef, sessionIdRef, mediaRecorderRef,
                   streamRef, chunksRef, timerRef, platVars, pipeSid, pipeRes, pipeQid,
                   sessionId, questionId, srvSid, srvQid, reqIdRef, pipeSubReq,
                   pipeTtsReq, cancelledIn, vadStops>>
    /\ UNCHANGED vadVars
    /\ statusErr' = StatusAfterFailure(outcome)
    /\ UNCHANGED <<ctlVars, srvOwner, keyVars, uiVars>>

\* the run of a moves to its next await; the reply call is made with the
\* header "X-Req-Id": reqIdRef.current
PipeAdvance(a, next) ==
    /\ pipe' = [pipe EXCEPT ![a] = next]
    /\ pipeTtsReq' = IF next = "reply"
                     THEN [pipeTtsReq EXCEPT ![a] = reqIdRef]
                     ELSE pipeTtsReq
    /\ lastTask' = "other"
    /\ UNCHANGED <<hookVars, platVars, onBlobLock, pipeSid, pipeRes, pipeQid, sessionId,
                   questionId, srvSid, srvQid, reqIdRef, pipeSubReq, cancelledIn,
                   vadStops>>
    /\ UNCHANGED vadVars
    /\ statusErr' = IF next = "reply" THEN FALSE ELSE statusErr
    /\ UNCHANGED <<ctlVars, srvOwner, keyVars, uiVars>>

\* the fetch of the run of a resolved with ok: the run goes on to read the
\* body (r.json(), asrRes.json(), ttsRes.blob()) and writes nothing
PipeHead(a, body) ==
    /\ pipe' = [pipe EXCEPT ![a] = body]
    /\ lastTask' = "other"
    /\ UNCHANGED <<hookVars, platVars, onBlobLock, pipeSid, pipeQid, sessionId,
                   questionId, reqIdRef, pipeSubReq, pipeTtsReq, cancelledIn, vadStops>>
    /\ UNCHANGED vadVars
    /\ UNCHANGED <<ctlVars, statusErr, keyVars, uiVars>>

\* getJSON of API.simStart: fetch resolved with ok; the response is that of
\* session srvSid + 1 with question srvQid + 1, which the server made
PipeStartHead(a) ==
    /\ pipe[a] = "start"
    /\ PipeHead(a, "startBody")
    /\ srvSid' = srvSid + 1
    /\ srvQid' = srvQid + 1
    /\ srvOwner' = Append(srvOwner, srvSid + 1)
    /\ pipeRes' = [pipeRes EXCEPT ![a] = <<srvSid + 1, srvQid + 1>>]

\* API.simStart resolved with the body read; the submit call is made with
\* the header "X-Req-Id": reqIdRef.current
PipeStartOk(a) ==
    /\ pipe[a] = "startBody"
    /\ pipe' = [pipe EXCEPT ![a] = "submit"]
    /\ pipeSid' = [pipeSid EXCEPT ![a] = pipeRes[a][1]]
    /\ pipeQid' = [pipeQid EXCEPT ![a] = pipeRes[a][2]]
    /\ sessionId' = pipeRes[a][1]
    /\ questionId' = pipeRes[a][2]
    /\ pipeSubReq' = [pipeSubReq EXCEPT ![a] = reqIdRef]
    /\ lastTask' = "other"
    /\ UNCHANGED <<hookVars, platVars, onBlobLock, reqIdRef, pipeTtsReq, cancelledIn,
                   vadStops, pipeRes, srvSid, srvQid, srvOwner>>
    /\ UNCHANGED vadVars
    /\ question' = pipeRes[a][2]
    /\ UNCHANGED <<lastScores, ctl, ctlCount, scored, statusErr, keyVars, uiVars>>

\* API.simStart rejected: fetch failed or not ok, or the body is no JSON
PipeStartFail(a) == pipe[a] \in {"start", "startBody"} /\ PipeExit(a, "err")

\* fetch(sim/answer/audio) resolved with ok
PipeSubmitHead(a) ==
    /\ pipe[a] = "submit"
    /\ PipeHead(a, "submitBody")
    /\ UNCHANGED <<srvSid, srvQid, srvOwner, pipeRes>>

\* asrRes.json() resolved
PipeSubmitOk(a) == pipe[a] = "submitBody" /\ PipeAdvance(a, "reply")

\* fetch failed or not ok, or asrRes.json() rejected
PipeSubmitFail(a) == pipe[a] \in {"submit", "submitBody"} /\ PipeExit(a, "err")

\* fetch(tts/say) resolved with ok
PipeReplyHead(a) ==
    /\ pipe[a] = "reply"
    /\ PipeHead(a, "replyBody")
    /\ UNCHANGED <<srvSid, srvQid, srvOwner, pipeRes>>

\* ttsRes.blob() resolved
PipeReplyOk(a) == pipe[a] = "replyBody" /\ PipeAdvance(a, "play")

\* fetch failed or not ok, or ttsRes.blob() rejected
PipeReplyFail(a) == pipe[a] \in {"reply", "replyBody"} /\ PipeExit(a, "err")

\* audio.play() resolved
PipePlayOk(a) == pipe[a] = "play" /\ PipeExit(a, "ok")

\* Mutant of PipePlayFail: the rejection reaches the outer catch.
PipePlayFail_Throws(a) == pipe[a] = "play" /\ PipeExit(a, "err")

\* audio.play() rejected: caught and logged, the run goes on to "Ready"
PipePlayFail(a) == pipe[a] = "play" /\ PipeExit(a, "ok")

PipeStep(a) ==
    \/ PipeStartHead(a)
    \/ PipeStartOk(a)
    \/ PipeStartFail(a)
    \/ PipeSubmitHead(a)
    \/ PipeSubmitOk(a)
    \/ PipeSubmitFail(a)
    \/ PipeReplyHead(a)
    \/ PipeReplyOk(a)
    \/ PipeReplyFail(a)
    \/ PipePlayOk(a)
    \/ PipePlayFail(a)

----------------------------------------------------------------------------
(* The sim controls of App: handleStart, handleNext, handleScore.  The     *)
(* handlers are re-created at every render, so a click reads the sessionId *)
(* and questionId of the latest render.  The buttons of ControlBar are     *)
(* disabled while processing is set.                                       *)

\* the call of control i settles: the label tells how
CtlSettle(i, label) ==
    /\ ctl' = [ctl EXCEPT ![i] = NoCall]
    /\ lastTask' = label
    /\ UNCHANGED <<hookVars, platVars, onBlobLock, pipe, pipeSid, pipeRes, pipeQid, reqIdRef,
                   pipeSubReq, pipeTtsReq, vadVars, cancelledIn, vadStops, ctlCount,
                   keyVars, uiVars, srvSid, srvQid, srvOwner>>

\* a control makes its remote call: setStatus({ kind: "busy", ... }), await
CtlCall(call) ==
    /\ ctlCount < MaxCtl
    /\ ctl' = [ctl EXCEPT ![ctlCount + 1] = call]
    /\ ctlCount' = ctlCount + 1
    /\ statusErr' = FALSE
    /\ lastTask' = "other"
    /\ UNCHANGED <<hookVars, platVars, appVars, vadVars, cancelledIn, vadStops,
                   question, lastScores, scored, srvOwner, keyVars, uiVars>>

\* a control returns at its guard
CtlNoop ==
    /\ lastTask' = "ctlNoop"
    /\ UNCHANGED <<hookVars, platVars, appVars, vadVars, cancelledIn, vadStops,
                   ctlVars, statusErr, srvOwner, keyVars, uiVars>>

\* getJSON: the fetch of the call of control i resolved with ok and r.json()
\* is being read; the response is what the server made of the request: a
\* session with its first question (start), the next question of the session
\* the call named (next), the scores of the question it named (score)
CtlHead(i) ==
    /\ ctl[i].kind # "none"
    /\ ~ctl[i].got
    /\ ctl' = [ctl EXCEPT ![i] =
                 [@ EXCEPT !.got = TRUE,
                           !.rsid = IF ctl[i].kind = "start" THEN srvSid + 1 ELSE ctl[i].sid,
                           !.rqid = IF ctl[i].kind = "score" THEN ctl[i].qid ELSE srvQid + 1]]
    /\ srvSid' = IF ctl[i].kind = "start" THEN srvSid + 1 ELSE srvSid
    /\ srvQid' = IF ctl[i].kind = "score" THEN srvQid ELSE srvQid + 1
    /\ srvOwner' = IF ctl[i].kind = "start" THEN Append(srvOwner, srvSid + 1)
                   ELSE IF ctl[i].kind = "next" THEN Append(srvOwner, ctl[i].sid)
                   ELSE srvOwner
    /\ lastTask' = "other"
    /\ UNCHANGED <<hookVars, platVars, onBlobLock, pipe, pipeSid, pipeRes, pipeQid,
                   sessionId, questionId, reqIdRef, pipeSubReq, pipeTtsReq, vadVars,
                   cancelledIn, vadStops, question, lastScores, ctlCount, scored,
                   statusErr, keyVars, uiVars>>

\* handleStart() up to "await API.simStart(...)"
HandleStart ==
    /\ mounted
    /\ ~isProcessing
    /\ CtlCall(NewCall("start", 0, 0))

\* Mutant of CtlStartOk: the continuation without setLastScores(null).
CtlStartOk_KeepsScores(i) ==
    /\ ctl[i].kind = "start"
    /\ ctl[i].got
    /\ sessionId' = ctl[i].rsid
    /\ questionId' = ctl[i].rqid
    /\ question' = ctl[i].rqid
    /\ statusErr' = FALSE
    /\ CtlSettle(i, "ctlOk")
    /\ UNCHANGED <<lastScores, scored>>

\* API.simStart resolved with the body read
CtlStartOk(i) ==
    /\ ctl[i].kind = "start"
    /\ ctl[i].got
    /\ sessionId' = ctl[i].rsid
    /\ questionId' = ctl[i].rqid
    /\ question' = ctl[i].rqid
    /\ lastScores' = 0
    /\ statusErr' = FALSE
    /\ CtlSettle(i, "ctlOk")
    /\ UNCHANGED scored

\* API.simStart rejected (fetch failed or not ok, or the body is no JSON): catch
CtlStartFail(i) ==
    /\ ctl[i].kind = "start"
    /\ statusErr' = StatusAfterFailure("err")
    /\ CtlSettle(i, "ctlErr")
    /\ UNCHANGED <<sessionId, questionId, question, lastScores, scored>>

\* Mutant of HandleNextGuard: handleNext without "if (!sessionId) return;".
HandleNextGuard_None == TRUE

\* "if (!sessionId) return;" of handleNext
HandleNextGuard == sessionId # 0

\* handleNext() up to "await API.simNext({ session_id: sessionId })"
HandleNext ==
    /\ mounted
    /\ ~isProcessing
    /\ IF ~HandleNextGuard
       THEN CtlNoop
       ELSE CtlCall(NewCall("next", sessionId, 0))

\* Mutant of CtlNextOk: the continuation without setLastScores(null).
CtlNextOk_KeepsScores(i) ==
    /\ ctl[i].kind = "next"
    /\ ctl[i].got
    /\ questionId' = ctl[i].rqid
    /\ question' = ctl[i].rqid
    /\ statusErr' = FALSE
    /\ CtlSettle(i, "ctlOk")
    /\ UNCHANGED <<sessionId, lastScores, scored>>

\* API.simNext resolved with the body read
CtlNextOk(i) ==
    /\ ctl[i].kind = "next"
    /\ ctl[i].got
    /\ questionId' = ctl[i].rqid
    /\ question' = ctl[i].rqid
    /\ lastScores' = 0
    /\ statusErr' = FALSE
    /\ CtlSettle(i, "ctlOk")
    /\ UNCHANGED <<sessionId, scored>>

\* API.simNext rejected: catch
CtlNextFail(i) ==
    /\ ctl[i].kind = "next"
    /\ statusErr' = StatusAfterFailure("err")
    /\ CtlSettle(i, "ctlErr")
    /\ UNCHANGED <<sessionId, questionId, question, lastScores, scored>>

\* "if (!sessionId || !questionId) return;" of handleScore
HandleScoreGuard == sessionId # 0 /\ questionId # 0

\* handleScore() up to "await API.simScore({ session_id, question_id })"
HandleScore ==
    /\ mounted
    /\ ~isProcessing
    /\ IF ~HandleScoreGuard
       THEN CtlNoop
       ELSE CtlCall(NewCall("score", sessionId, questionId))

\* API.simScore resolved with the body read: setLastScores(res.scores), the
\* scores of the question the call named
CtlScoreOk(i) ==
    /\ ctl[i].kind = "score"
    /\ ctl[i].got
    /\ lastScores' = ctl[i].rqid
    /\ statusErr' = FALSE
    /\ CtlSettle(i, "ctlOk")
    /\ scored' = scored \cup {ctl[i].rqid}
    /\ UNCHANGED <<sessionId, questionId, question>>

\* API.simScore rejected: catch
CtlScoreFail(i) ==
    /\ ctl[i].kind = "score"
    /\ statusErr' = StatusAfterFailure("err")
    /\ CtlSettle(i, "ctlErr")
    /\ UNCHANGED <<sessionId, questionId, question, lastScores, scored>>

\* a remote call of a sim control settles
CtlStep(i) ==
    \/ CtlHead(i)
    \/ CtlStartOk(i)
    \/ CtlStartFail(i)
    \/ CtlNextOk(i)
    \/ CtlNextFail(i)
    \/ CtlScoreOk(i)
    \/ CtlScoreFail(i)

----------------------------------------------------------------------------
\* the tasks of a session driven by the record button, other than start():
\* the settling of getUserMedia, stop(), cancel(), the timers, unmount, the
\* recorder's events and the awaits of the pipeline runs
CoreStep ==
    \/ \E a \in Acqs : AcquireResolve(a)
    \/ \E a \in Acqs : AcquireSetupThrow(a)
    \/ \E a \in Acqs : AcquireStartThrow(a)
    \/ \E a \in Acqs : AcquireReject(a)
    \/ LockTimerFire
    \/ Stop
    \/ Cancel
    \/ \E a \in Acqs : MaxTimerFire(a)
    \/ Unmount
    \/ \E a \in Acqs : TrackEndStop(a)
    \/ \E a \in Acqs : OnDataAvailable(a)
    \/ \E a \in Acqs : OnStop(a)
    \/ \E a \in Acqs : PipeStartHead(a)
    \/ \E a \in Acqs : PipeStartOk(a)
    \/ \E a \in Acqs : PipeStartFail(a)
    \/ \E a \in Acqs : PipeSubmitHead(a)
    \/ \E a \in Acqs : PipeSubmitOk(a)
    \/ \E a \in Acqs : PipeSubmitFail(a)
    \/ \E a \in Acqs : PipeReplyHead(a)
    \/ \E a \in Acqs : PipeReplyOk(a)
    \/ \E a \in Acqs : PipeReplyFail(a)
    \/ \E a \in Acqs : PipePlayOk(a)
    \/ \E a \in Acqs : PipePlayFail(a)

CoreNext == Start \/ CoreStep

\* sessions driven by the record button
CoreSpec == Init /\ [][CoreNext]_vars

\* every awaited remote or playback call of a pipeline run eventually settles
LiveSpec == CoreSpec /\ \A a \in Acqs : WF_vars(PipeStep(a))

\* the tasks that settle an outstanding asynchronous operation: a
\* getUserMedia promise, a timer, a recorder event, an awaited call of a run
Settle ==
    \/ \E a \in Acqs : AcquireResolve(a)
    \/ \E a \in Acqs : AcquireSetupThrow(a)
    \/ \E a \in Acqs : AcquireStartThrow(a)
    \/ \E a \in Acqs : AcquireReject(a)
    \/ LockTimerFire
    \/ \E a \in Acqs : MaxTimerFire(a)
    \/ \E a \in Acqs : TrackEndStop(a)
    \/ \E a \in Acqs : OnDataAvailable(a)
    \/ \E a \in Acqs : OnStop(a)
    \/ \E a \in Acqs : PipeStep(a)

\* the program when every outstanding asynchronous operation eventually settles
SettleSpec == CoreSpec /\ WF_vars(Settle)

WideNext == StartWide \/ CoreStep

\* the same, one more recording explored
SettleWideSpec == Init /\ [][WideNext]_vars /\ WF_vars(Settle)

\* the same program, one more recording explored
WideSpec == Init /\ [][WideNext]_vars

\* the tasks of the hook other than a start() call
HookStep ==
    \/ \E a \in Acqs : AcquireResolve(a)
    \/ \E a \in Acqs : AcquireSetupThrow(a)
    \/ \E a \in Acqs : AcquireStartThrow(a)
    \/ \E a \in Acqs : AcquireReject(a)
    \/ LockTimerFire
    \/ Stop
    \/ Cancel
    \/ \E a \in Acqs : MaxTimerFire(a)
    \/ Unmount
    \/ \E a \in Acqs : TrackEndStop(a)
    \/ \E a \in Acqs : OnDataAvailable(a)
    \/ \E a \in Acqs : OnStop(a)

HookNext == Start \/ HookStep

HookWideNext == StartWide \/ HookStep

\* the hook alone; every armed max-length timer eventually fires and every
\* queued recorder event is eventually delivered
HookLiveSpec ==
    /\ Init
    /\ [][HookNext]_vars
    /\ \A a \in Acqs : WF_vars(MaxTimerFire(a))
    /\ \A a \in Acqs : WF_vars(TrackEndStop(a))
    /\ \A a \in Acqs : WF_vars(OnDataAvailable(a))
    /\ \A a \in Acqs : WF_vars(OnStop(a))

\* the same, one more recording explored
HookWideLiveSpec ==
    /\ Init
    /\ [][HookWideNext]_vars
    /\ \A a \in Acqs : WF_vars(MaxTimerFire(a))
    /\ \A a \in Acqs : WF_vars(TrackEndStop(a))
    /\ \A a \in Acqs : WF_vars(OnDataAvailable(a))
    /\ \A a \in Acqs : WF_vars(OnStop(a))

\* the tasks of the hook, its metering loop and the clock
VadStep ==
    \/ \E a \in Acqs : AcquireResolve(a)
    \/ \E a \in Acqs : AcquireSetupThrow(a)
    \/ \E a \in Acqs : AcquireStartThrow(a)
    \/ \E a \in Acqs : AcquireReject(a)
    \/ LockTimerFire
    \/ Stop
    \/ Cancel
    \/ \E a \in Acqs : MaxTimerFire(a)
    \/ Unmount
    \/ \E a \in Acqs : TrackEndStop(a)
    \/ \E a \in Acqs : OnDataAvailable(a)
    \/ \E a \in Acqs : OnStop(a)
    \/ \E a \in Acqs : Tick(a)
    \/ Advance

VadNext == StartVad \/ VadStep

\* the hook with its metering loop under a clock
VadSpec == VadInit /\ [][VadNext]_vars

\* the tasks of a session in which the user only starts recordings and the
\* silence event ends them
VadWideNext ==
    \/ StartWide
    \/ \E a \in Acqs : AcquireResolve(a)
    \/ \E a \in Acqs : AcquireReject(a)
    \/ LockTimerFire
    \/ \E a \in Acqs : OnDataAvailable(a)
    \/ \E a \in Acqs : OnStop(a)
    \/ \E a \in Acqs : Tick(a)
    \/ Advance

\* such sessions, one more recording explored, under one choice of the options
VadWideSpec == Init /\ [][VadWideNext]_vars

\* the tasks of a session driven by the Space key and the record button
KeyNext ==
    \/ KeyDownSpace
    \/ KeyUpSpace
    \/ KeyEscape
    \/ Start
    \/ HookStep

\* the hook with its hotkeys
KeySpec == Init /\ [][KeyNext]_vars

\* Number of getUserMedia calls explored by AppSpec.
MaxAppStarts == 1

StartApp == StartCall(MaxAppStarts)

\* the tasks of a session that uses the sim controls and the record button
AppNext ==
    \/ StartApp
    \/ \E a \in Acqs : AcquireResolve(a)
    \/ \E a \in Acqs : AcquireReject(a)
    \/ LockTimerFire
    \/ Stop
    \/ \E a \in Acqs : MaxTimerFire(a)
    \/ \E a \in Acqs : OnDataAvailable(a)
    \/ \E a \in Acqs : OnStop(a)
    \/ \E a \in Acqs : PipeStartHead(a)
    \/ \E a \in Acqs : PipeStartOk(a)
    \/ \E a \in Acqs : PipeStartFail(a)
    \/ \E a \in Acqs : PipeSubmitHead(a)
    \/ \E a \in Acqs : PipeSubmitOk(a)
    \/ \E a \in Acqs : PipeSubmitFail(a)
    \/ \E a \in Acqs : PipeReplyHead(a)
    \/ \E a \in Acqs : PipeReplyOk(a)
    \/ \E a \in Acqs : PipeReplyFail(a)
    \/ \E a \in Acqs : PipePlayOk(a)
    \/ \E a \in Acqs : PipePlayFail(a)
    \/ HandleStart
    \/ HandleNext
    \/ HandleScore
    \/ \E i \in CtlIds : CtlHead(i)
    \/ \E i \in CtlIds : CtlStartOk(i)
    \/ \E i \in CtlIds : CtlStartFail(i)
    \/ \E i \in CtlIds : CtlNextOk(i)
    \/ \E i \in CtlIds : CtlNextFail(i)
    \/ \E i \in CtlIds : CtlScoreOk(i)
    \/ \E i \in CtlIds : CtlScoreFail(i)

\* the App with its sim controls, the record button and the pipeline
AppSpec == Init /\ [][AppNext]_vars

----------------------------------------------------------------------------
(* The whole program: the hook with the options App leaves at their         *)
(* defaults (silence detection, hotkeys, stop when the tab is hidden), the  *)
(* pipeline runs and the sim controls.  CoreSpec, VadSpec, KeySpec,         *)
(* TriggerSpec and AppSpec are sub-relations of it.                         *)

\* every task other than start() called by the record button
Step ==
    \/ CoreStep
    \/ \E a \in Acqs : Tick(a)
    \/ Advance
    \/ VisibilityChange
    \/ KeyDownSpace
    \/ KeyUpSpace
    \/ KeyEscape
    \/ HandleStart
    \/ HandleNext
    \/ HandleScore
    \/ \E i \in CtlIds : CtlStep(i)

Next == Start \/ Step

Spec == Init /\ [][Next]_vars

TypeOK ==
    /\ env \in Envs
    /\ sessionIdRef \in 0..MaxAcq
    /\ \A a \in Acqs : pipe[a] \in {"none", "rejected"} \cup PipeRunning \cup PipeDone

----------------------------------------------------------------------------
(* Properties                                                              *)

\* the microphone streams whose tracks are live
OpenStreams == {a \in Acqs : st[a] = "open"}

\* a getUserMedia call is outstanding
Acquiring == \E a \in Acqs : st[a] = "pending"

\* the engine is Idle: not acquiring, not recording, not stopping, not processing
Idle ==
    /\ ~isRecording
    /\ ~isProcessing
    /\ ~Acquiring
    /\ ~IsRecordingState(mediaRecorderRef)

\* the pipeline runs that are in flight
RunningPipes == {a \in Acqs : pipe[a] \in PipeRunning}

\* onBlob was invoked with the utterance of recorder a
Delivered(a) == pipe[a] # "none"

\* C1: at most one microphone stream is open at any instant.
C1_AtMostOneDevice == Cardinality(OpenStreams) <= 1

\* C2: a recording that cancel() hit while it was Recording is never delivered
\* to the consumer.
C2_CancelledNeverDelivered ==
    \A a \in Acqs : cancelledIn[a] = "rec" => ~Delivered(a)

\* C3: at most one utterance pipeline is in flight at any time.
C3_AtMostOnePipeline == Cardinality(RunningPipes) <= 1

\* C4: busy becomes true only when a delivery is admitted, becomes false only
\* when a pipeline run completes, and a rejected delivery leaves it unchanged.
C4_BusyOnlyAtEntryExit ==
    [][ /\ (~onBlobLock /\ onBlobLock') =>
              \E a \in Acqs : pipe[a] = "none" /\ pipe'[a] \in PipeRunning
        /\ (onBlobLock /\ ~onBlobLock') =>
              \E a \in Acqs : pipe[a] \in PipeRunning /\ pipe'[a] \in PipeDone
        /\ \A a \in Acqs :
              (pipe[a] = "none" /\ pipe'[a] = "rejected") => onBlobLock' = onBlobLock
      ]_vars

\* C5: a start() call made right behind a start() that called getUserMedia is
\* a no-op: no second acquisition, no token, no change of the engine.
C5_SecondStartIsNoOp ==
    [][ (lastTask \in {"start", "start2"} /\ lastTask' = "start2") =>
            /\ acqCount' = acqCount
            /\ sessionIdRef' = sessionIdRef
            /\ UNCHANGED <<hookVars, platVars, appVars>>
      ]_vars

\* C5 witness: two start() calls in a row, one acquisition outstanding, no token yet.
C5_Witness ==
    /\ lastTask = "start2"
    /\ acqCount = 1
    /\ st[1] = "pending"
    /\ sessionIdRef = 0

\* C6: whenever the engine is Idle, no microphone stream is open.
C6_IdleHoldsNoDevice == Idle => OpenStreams = {}

\* C7: a start() that cancel() hit while it was acquiring never reaches
\* Recording and delivers nothing.
C7_CancelStopsAcquiringStart ==
    \A a \in Acqs : cancelledIn[a] = "acq" => (ph[a] = "none" /\ ~Delivered(a))

\* C8: after cancel() from Recording the current token is greater than the
\* token of the cancelled recording.
C8_CancelIncrementsToken ==
    \A a \in Acqs : cancelledIn[a] = "rec" => sessionIdRef > tok[a]

\* C9: a dataavailable or stop callback that runs under a token different from
\* the current one buffers nothing, delivers nothing and changes no engine state.
C9_StaleCallbackNoEffect ==
    [][ \A a \in Acqs :
          ( /\ ph[a] \in {"stopData", "stopStop"}
            /\ ph'[a] # ph[a]
            /\ sessionIdRef # tok[a] ) =>
                UNCHANGED <<hookVars, appVars, st, timers, lockTimers>>
      ]_vars

\* C9 witness: a callback has just run under a stale token while a newer
\* recording is in progress.
C9_Witness ==
    /\ lastTask = "stale"
    /\ \E a \in Acqs : ph[a] = "done" /\ tok[a] # 0 /\ tok[a] < sessionIdRef
    /\ IsRecordingState(mediaRecorderRef)

\* C10: every admitted pipeline run ends, and the step that ends it clears busy.
C10_RunClearsBusy ==
    /\ \A a \in Acqs : (pipe[a] \in PipeRunning) ~> (pipe[a] \in PipeDone)
    /\ [][ \A a \in Acqs :
             (pipe[a] \in PipeRunning /\ pipe'[a] \in PipeDone) => ~onBlobLock'
         ]_vars

\* C10 witness: runs have ended in failure and in success, and busy is clear.
C10_Witness ==
    /\ \E a \in Acqs : pipe[a] = "err"
    /\ \E a \in Acqs : pipe[a] = "ok"
    /\ ~onBlobLock

\* C11: an utterance delivered while busy is set is dropped: no remote call
\* is ever issued for it and the delivery leaves the session (sessionId,
\* questionId, and the server's sessions and questions) as it was.
C11_BusyDeliveryDropped ==
    [][ \A a \in Acqs :
          /\ (pipe[a] = "none" /\ pipe'[a] # "none" /\ onBlobLock) =>
                 /\ pipe'[a] \notin PipeRunning
                 /\ UNCHANGED <<sessionId, questionId, srvSid, srvQid>>
          /\ (pipe[a] = "rejected") => pipe'[a] = "rejected"
      ]_vars

\* C11 witness: a delivery was dropped while the run of another utterance is
\* in flight.
C11_Witness ==
    \E a, b \in Acqs : pipe[a] = "rejected" /\ pipe[b] \in PipeRunning

\* a metering tick has just called mr.stop() on recorder a
VadStopped(a) == vadStops'[a] # vadStops[a]

\* C12: a silence auto-stop never comes before the grace period is over, and
\* never sooner than minStartMs + silenceMs after the recording was started.
C12_NoAutoStopBeforeGrace ==
    [][ \A a \in Acqs :
          VadStopped(a) =>
             /\ startedAtRef # 0
             /\ now - startedAtRef >= vadMinStart
             /\ now - startedAtRef >= vadMinStart + vadSilence
      ]_vars

\* C13: a quiet tick past the grace period that finds the silence duration
\* reached while the recorder is recording stops it, and no recorder is
\* stopped by the metering tick more than once.
C13_SilenceStopsExactlyOnce ==
    /\ [][ ( /\ lastTask' = "tick"
             /\ startedAtRef # 0
             /\ now - startedAtRef >= vadMinStart
             /\ silenceStartRef' # 0
             /\ now - silenceStartRef' >= vadSilence
             /\ mediaRecorderRef # 0
             /\ ph[mediaRecorderRef] = "recording" ) =>
                 /\ ph'[mediaRecorderRef] = "stopData"
                 /\ vadStops'[mediaRecorderRef] = 1
         ]_vars
    /\ [](\A a \in Acqs : vadStops[a] <= 1)

\* C13 witness: the silence event stopped a recorder once, and a later tick
\* ran before its stop event without stopping it again.
C13_Witness ==
    \E a \in Acqs :
        /\ vadStops[a] = 1
        /\ ph[a] = "stopStop"
        /\ mediaRecorderRef = a
        /\ lastTask = "tick"

\* C14: a silence auto-stop comes only when no tick since the silence timer
\* was started measured a level above the threshold.
C14_LoudTickResetsSilence ==
    [][ \A a \in Acqs : VadStopped(a) => ~loudSince' ]_vars

\* C15: every recording ends: with the component mounted, a recording in
\* progress leads to the engine not recording and its recorder stopped,
\* through the max-length timer when nothing else stops it.
C15_RecordingEventuallyEnds ==
    (mounted /\ isRecording) ~>
        ((~isRecording /\ ~IsRecordingState(mediaRecorderRef)) \/ ~mounted)

\* C16: stop() is idempotent: a stop() call acts only on a recorder that is
\* recording, a stop() right behind a stop() changes nothing, and a recorder
\* fires its stop event, and so delivers, at most once.
C16_StopIdempotent ==
    [][ /\ (lastTask' = "stop") =>
              (mediaRecorderRef # 0 /\ ph[mediaRecorderRef] = "recording")
        /\ (lastTask' = "stop2") =>
              UNCHANGED <<hookVars, platVars, appVars, vadVars, cancelledIn, vadStops>>
        /\ \A a \in Acqs :
              /\ (ph[a] = "stopStop") => (ph'[a] \in {"stopStop", "done"})
              /\ (ph[a] = "done") => (ph'[a] = "done")
              /\ (pipe[a] = "none" /\ pipe'[a] # "none") =>
                     (ph[a] = "stopStop" /\ ph'[a] = "done")
      ]_vars

\* C16 witness: stop() was called twice in a row on one recording, whose
\* events are still queued.
C16_Witness ==
    /\ lastTask = "stop2"
    /\ mediaRecorderRef # 0
    /\ ph[mediaRecorderRef] = "stopData"
    /\ isRecording

\* start() has just failed: at its prechecks, or as the start of acquisition a
\* (getUserMedia rejected, or the recorder set-up threw)
StartFailed ==
    \/ lastTask' = "startFail"
    \/ \E a \in Acqs : st[a] = "pending" /\ st'[a] \in {"failed", "closed"}

\* C17: when start() fails the engine is Idle with no stream open, the start
\* lock released, no max-length timer armed and the error set, the failed
\* start never delivers, and a start() made next passes the guard.
C17_FailedStartLeavesIdle ==
    /\ [][ StartFailed =>
             /\ Idle'
             /\ OpenStreams' = {}
             /\ ~startLockRef'
             /\ timers' = {}
             /\ error'
             /\ ~(isRecording' \/ isProcessing' \/ startLockRef')
         ]_vars
    /\ [](\A a \in Acqs : (st[a] = "failed" \/ ph[a] \in {"none", "inactive"}) =>
                               pipe[a] = "none")

\* C18: the stop of a recording that buffered no data delivers nothing: the
\* pipeline is not invoked, busy and the session are left alone, and the
\* engine leaves Recording with the recorder dropped and its stream closed.
C18_EmptyUtteranceDropped ==
    [][ \A a \in Acqs :
          ( /\ ph[a] = "stopStop"
            /\ ph'[a] = "done"
            /\ sessionIdRef = tok[a]
            /\ chunksRef = <<>> ) =>
                /\ UNCHANGED appVars
                /\ ~isRecording'
                /\ ~isProcessing'
                /\ mediaRecorderRef' # a
                /\ st'[a] # "open"
      ]_vars

\* C19: the submit call and the reply call of a run carry the identifier
\* generated for the utterance of that run.
C19_OneCorrelationIdPerTurn ==
    \A a \in Acqs :
        /\ pipeSubReq[a] \in {0, a}
        /\ pipeTtsReq[a] \in {0, a}

\* C20: when an utterance is admitted, the run starts a session exactly when
\* the App has none at that moment, and otherwise submits under the
\* sessionId and questionId the App holds at that moment.
C20_LazyStartOnCurrentSession ==
    [][ \A a \in Acqs :
          (pipe[a] = "none" /\ pipe'[a] \in PipeRunning) =>
              /\ (pipe'[a] = "start") <=> (sessionId = 0 \/ questionId = 0)
              /\ (pipe'[a] = "submit") =>
                     (pipeSid'[a] = sessionId /\ pipeQid'[a] = questionId)
      ]_vars

\* the remote calls of the sim controls that are outstanding
PendingCtl(kind) == {i \in CtlIds : ctl[i].kind = kind}

\* the call of control i was issued for a session or question that was replaced since
CtlStaleCall(i) ==
    \/ ctl[i].kind = "next" /\ ctl[i].sid # sessionId
    \/ ctl[i].kind = "score" /\ (ctl[i].sid # sessionId \/ ctl[i].qid # questionId)

\* the submit call of the run of a succeeded: the answer was submitted
Submitted(a) == pipeTtsReq[a] # 0

\* an answer was submitted for question qid of session sid
Answered(sid, qid) ==
    \E a \in Acqs : Submitted(a) /\ pipeSid[a] = sid /\ pipeQid[a] = qid

\* C21: a remote result that arrives after the session or question it was
\* issued for has been replaced is dropped: a next or score response leaves
\* sessionId, questionId, the question and lastScores alone, and a synthesized
\* reply does not go to playback.
C21_StaleResultDropped ==
    [][ /\ \A i \in CtlIds :
              (CtlStaleCall(i) /\ ctl'[i] = NoCall) =>
                  UNCHANGED <<sessionId, questionId, question, lastScores>>
        /\ \A a \in Acqs :
              (pipe[a] = "replyBody" /\ pipe'[a] = "play") =>
                  (pipeSid[a] = sessionId /\ pipeQid[a] = questionId)
      ]_vars

\* C22: the remote score operation is never called for a (sessionId,
\* questionId) for which no answer was submitted.
C22_ScoreOnlyAfterAnswer ==
    \A i \in PendingCtl("score") : Answered(ctl[i].sid, ctl[i].qid)

\* C23: at most one next call and at most one score call is outstanding.
C23_ControlsNotReentrant ==
    /\ Cardinality(PendingCtl("next")) <= 1
    /\ Cardinality(PendingCtl("score")) <= 1

\* control i received the response of its call of the given kind in this step
CtlResolved(i, kind) == ctl[i].kind = kind /\ ctl'[i] = NoCall /\ lastTask' = "ctlOk"

\* the orchestrator is in QuestionPosed: a session whose current question
\* is shown, has no answer submitted and no score
QuestionPosed ==
    /\ sessionId # 0
    /\ questionId # 0
    /\ question = questionId
    /\ lastScores = 0
    /\ ~Answered(sessionId, questionId)

\* C24: handleNext() without a session makes no remote call and changes
\* nothing; when the next call succeeds, questionId and the question are those
\* of the response, lastScores is null and sessionId is unchanged.
C24_NextReplacesQuestion ==
    [][ /\ \A i \in CtlIds :
              (ctl[i].kind = "none" /\ ctl'[i].kind = "next") => sessionId # 0
        /\ (lastTask' = "ctlNoop") =>
              UNCHANGED <<hookVars, platVars, appVars, ctlVars, statusErr>>
        /\ \A i \in CtlIds :
              CtlResolved(i, "next") =>
                  /\ questionId' = ctl[i].rqid
                  /\ question' = ctl[i].rqid
                  /\ lastScores' = 0
                  /\ sessionId' = sessionId
      ]_vars

\* C24 witness: the only session moved on to its second question.
C24_Witness ==
    /\ lastTask = "ctlOk"
    /\ srvSid = 1
    /\ sessionId = 1
    /\ srvQid = 2
    /\ questionId = 2
    /\ question = 2
    /\ lastScores = 0

\* C25: when the start call of handleStart succeeds, sessionId, questionId
\* and the question are those of the response and the orchestrator is in
\* QuestionPosed; when it fails, the session state is what it was (NoSession
\* if there was none) and the status is an error status.
C25_StartStoresOrFails ==
    [][ \A i \in CtlIds :
          /\ CtlResolved(i, "start") =>
                /\ sessionId' = ctl[i].rsid
                /\ questionId' = ctl[i].rqid
                /\ QuestionPosed'
          /\ (ctl[i].kind = "start" /\ ctl'[i] = NoCall /\ lastTask' = "ctlErr") =>
                /\ UNCHANGED <<sessionId, questionId, question, lastScores>>
                /\ statusErr'
      ]_vars

\* C25 witness: the start call failed with no session: NoSession, error status.
C25_Witness ==
    /\ lastTask = "ctlErr"
    /\ sessionId = 0
    /\ questionId = 0
    /\ srvSid = 0
    /\ statusErr

\* C26: when the next call succeeds on a session whose current question was
\* answered and scored, with no other call outstanding, the orchestrator is in
\* QuestionPosed with the questionId of the response, in the same session.
C26_RoundTripPosesNext ==
    [][ \A i \in CtlIds :
          ( /\ CtlResolved(i, "next")
            /\ ctl[i].sid = sessionId
            /\ Answered(sessionId, questionId)
            /\ lastScores = questionId
            /\ RunningPipes = {}
            /\ \A j \in CtlIds \ {i} : ctl[j] = NoCall ) =>
                /\ QuestionPosed'
                /\ questionId' = ctl[i].rqid
                /\ questionId' # questionId
                /\ sessionId' = sessionId
      ]_vars

\* C26 witness: handleStart started session 1, the utterance recorded after
\* it (its onBlob holds session 1, question 1) answered question 1 without a
\* lazy start, the score was received and the next call brought question 2.
C26_Witness ==
    /\ lastTask = "ctlOk"
    /\ ctlCount = 3
    /\ \A i \in CtlIds : ctl[i] = NoCall
    /\ srvSid = 1
    /\ srvQid = 2
    /\ cap[1] = <<1, 1>>
    /\ pipeSid[1] = 1
    /\ pipeQid[1] = 1
    /\ pipe[1] = "ok"
    /\ scored = {1}
    /\ sessionId = 1
    /\ questionId = 2
    /\ lastScores = 0

\* C27: a failed remote call leaves sessionId, questionId, the question and
\* lastScores as they were and sets an error status; when the call belonged to
\* a pipeline run, the busy flag is cleared.
C27_FailureKeepsSession ==
    [][ /\ (lastTask' = "ctlErr") =>
              /\ UNCHANGED <<sessionId, questionId, question, lastScores>>
              /\ statusErr'
        /\ \A a \in Acqs :
              (pipe[a] \in PipeRunning /\ pipe'[a] = "err") =>
                  /\ UNCHANGED <<sessionId, questionId, question, lastScores>>
                  /\ statusErr'
                  /\ ~onBlobLock'
      ]_vars

\* C27 witness: a pipeline run failed in a session with a scored question.
C27_Witness ==
    /\ \E a \in Acqs : pipe[a] = "err" /\ pipeSid[a] = sessionId
    /\ sessionId # 0
    /\ lastScores # 0
    /\ statusErr
    /\ ~onBlobLock

\* C28: when every outstanding asynchronous operation settles, the program
\* always comes back to a state in which start() is accepted: the start lock,
\* isRecording, isProcessing and the busy flag are not set.
C28_NoErrorIsFatal ==
    []<>(~isRecording /\ ~isProcessing /\ ~startLockRef /\ ~onBlobLock)

\* C28 witness: after a failed acquisition and a failed pipeline run the
\* flags are clear and the component is still mounted.
C28_Witness ==
    /\ mounted
    /\ \E a \in Acqs : st[a] = "failed"
    /\ \E a \in Acqs : pipe[a] = "err"
    /\ error
    /\ ~isRecording
    /\ ~isProcessing
    /\ ~startLockRef
    /\ ~onBlobLock
    /\ lockTimers = 0
    /\ ~Acquiring

\* C29: while the busy flag of the pipeline is held and the engine is not
\* recording, not acquiring and not inside a start(), the guard of start()
\* accepts the call: a pipeline in flight does not keep isProcessing set.
C29_StartAcceptedWhileBusy ==
    (onBlobLock /\ ~isRecording /\ ~Acquiring /\ ~startLockRef) => StartGuard

\* C29 witness: start() has just called getUserMedia for a second recording
\* while the pipeline run of the first is in flight.
C29_Witness ==
    /\ lastTask = "start"
    /\ onBlobLock
    /\ pipe[1] \in PipeRunning
    /\ st[2] = "pending"

\* C30: when audio analysis cannot be set up, no metering loop runs, so no
\* level is measured and the silence event stops no recorder; the recording
\* still starts, and once the engine is Idle again the device is released.
C30_CaptureWithoutAnalysis ==
    ~audioOk =>
        /\ meters = {}
        /\ rafRef = 0
        /\ lastTask # "tick"
        /\ \A a \in Acqs : vadStops[a] = 0
        /\ Idle => OpenStreams = {}

\* C30 witness: without audio analysis a recording was made and stopped,
\* its utterance was delivered and its stream is closed.
C30_Witness ==
    /\ ~audioOk
    /\ ph[1] = "done"
    /\ Delivered(1)
    /\ st[1] = "closed"
    /\ timers = {}
    /\ Idle

\* C31: once Space is released, the recording its keydown started is not in
\* progress: the release stopped it, also when the key was released while the
\* device was being acquired.
C31_ReleaseStopsRecording ==
    (keyAcq # 0 /\ ~spaceDown) => ph[keyAcq] # "recording"

\* C32: the step that ends the playback of a run, also when play() was
\* rejected, ends the run as a success: the answer stays submitted, sessionId,
\* questionId, the question and lastScores are unchanged, no error status is
\* set and busy is cleared.
C32_PlaybackFailureKeepsTurn ==
    [][ \A a \in Acqs :
          (pipe[a] = "play" /\ pipe'[a] # "play") =>
              /\ pipe'[a] = "ok"
              /\ pipeTtsReq'[a] = pipeTtsReq[a]
              /\ pipeTtsReq[a] # 0
              /\ UNCHANGED <<sessionId, questionId, question, lastScores>>
              /\ ~statusErr'
              /\ ~onBlobLock'
      ]_vars

\* C32 witness: a run whose answer was submitted in the current session has
\* left playback; play() resolving and play() being rejected end in this state.
C32_Witness ==
    /\ \E a \in Acqs :
          /\ pipe[a] = "ok"
          /\ pipeTtsReq[a] # 0
          /\ pipeSid[a] = sessionId
          /\ pipeQid[a] = questionId
    /\ ~statusErr
    /\ ~onBlobLock
    /\ RunningPipes = {}

----------------------------------------------------------------------------
(* _levelDb: the loudness of a sample window.  Samples are in units of     *)
(* 1/1000 of full scale, at most 10000 in size, in windows of at most 8.   *)
(* A loudness is kept as the whole decibel at or below it.                 *)

\* vad.thresholdDb
ThresholdDb == -45

RECURSIVE SumSq(_, _)
\* for (const v of pcm) sum += v * v, over the first n samples
SumSq(w, n) == IF n = 0 THEN 0 ELSE SumSq(w, n - 1) + w[n] * w[n]

\* pcm.length || 1
Count(w) == IF Len(w) = 0 THEN 1 ELSE Len(w)

\* 20 * Math.log10(Math.sqrt(m) / 1000 + 1e-7) >= k - 140 exactly when the
\* mean square m (of samples in units of 1/1000) is at least
\* (10^(k/20) - 1)^2 / 10^8: the whole part of that number, k = 1..160
MinMeanSqWhole ==
    <<0, 0, 0, 0, 0, 0, 0, 0,
      0, 0, 0, 0, 0, 0, 0, 0,
      0, 0, 0, 0, 0, 0, 0, 0,
      0, 0, 0, 0, 0, 0, 0, 0,
      0, 0, 0, 0, 0, 0, 0, 0,
      0, 0, 0, 0, 0, 0, 0, 0,
      0, 0, 0, 0, 0, 0, 0, 0,
      0, 0, 0, 0, 0, 0, 0, 0,
      0, 0, 0, 0, 0, 0, 0, 0,
      0, 0, 0, 0, 0, 0, 0, 0,
      1, 1, 1, 2, 3, 3, 5, 6,
      7, 9, 12, 15, 19, 25, 31, 39,
      50, 63, 79, 99, 125, 158, 199, 251,
      316, 398, 501, 630, 794, 999, 1258, 1584,
      1995, 2511, 3162, 3981, 5011, 6309, 7943, 9999,
      12589, 15848, 19952, 25118, 31622, 39810, 50118, 63095,
      79432, 99999, 125892, 158489, 199526, 251188, 316227, 398107,
      501187, 630957, 794328, 999999, 1258925, 1584892, 1995262, 2511886,
      3162277, 3981071, 5011871, 6309572, 7943281, 9999999, 12589253, 15848931,
      19952622, 25118863, 31622775, 39810715, 50118721, 63095732, 79432821, 99999998>>

\* the next eight decimals of that number, k = 1..160; it has more decimals
\* for every k, so no mean square of whole samples equals it
MinMeanSqFrac ==
    <<0, 0, 0, 0, 0, 0, 1, 2,
      3, 4, 6, 8, 12, 16, 21, 28,
      36, 48, 62, 81, 104, 134, 172, 220,
      281, 359, 457, 581, 738, 937, 1188, 1506,
      1906, 2412, 3050, 3855, 4871, 6151, 7766, 9801,
      12365, 15598, 19671, 24802, 31268, 39412, 49671, 62594,
      78870, 99368, 125183, 157694, 198633, 250187, 315104, 396846,
      499772, 629369, 792546, 998001, 1256682, 1582376, 1992438, 2508717,
      3158722, 3977082, 5007395, 6304550, 7937646, 9993676, 12582158, 15840970,
      19943690, 25108841, 31611530, 39798098, 50104565, 63079848, 79414999, 99980001,
      25870101, 58464141, 99497981, 51156946, 16192201, 98067266, 1142460, 30907107,
      94271868, 99936755, 58854450, 84813572, 95172979, 11786195, 62165192, 80945515,
      11730748, 9414580, 43104098, 99800001, 89029715, 48680140, 52340643, 18547337,
      22420946, 10318003, 18275619, 95232071, 32259796, 99367545, 91831553, 88523032,
      25338130, 87640777, 26641335, 5908639, 85817736, 55755824, 26452223, 98000001,
      23167758, 90674611, 59489894, 83261724, 74103610, 67715011, 67858831, 68421030,
      76710477, 93675445, 47021674, 23962468, 14216017, 54291352, 65354858, 4436203,
      9203812, 18561455, 5647410, 80000001, 18739048, 94067604, 3246138, 11453095,
      30451250, 30648251, 88852850, 94242465, 78356623, 36754447, 40831490, 12839680,
      25632162, 31272134, 47700115, 79343504, 94683566, 85936286, 68992628, 1>>

\* 20 * Math.log10(Math.sqrt(sum / n) + 1e-7) >= k - 140, for the sum of
\* squares sum (in units of 1/1000 squared) of n samples
AtLeastDb(sum, n, k) ==
    sum > n * MinMeanSqWhole[k] + (n * MinMeanSqFrac[k]) \div 100000000

\* 20 * Math.log10(rms + 1e-7) with rms = Math.sqrt(sum / (pcm.length || 1)),
\* rounded down
RawDb(w) ==
    Cardinality({k \in 1..Len(MinMeanSqWhole) : AtLeastDb(SumSq(w, Len(w)), Count(w), k)})
    - 140

\* Mutant of LevelDb: the decibel value without the clamp.
LevelDb_NoClamp(w) == RawDb(w)

\* Math.max(-100, Math.min(0, db))
LevelDb(w) ==
    LET db == RawDb(w)
        capped == IF db < 0 THEN db ELSE 0
    IN  IF capped > -100 THEN capped ELSE -100

\* db > vad.thresholdDb for the db that _levelDb returns.  That db is a whole
\* number only when the clamp produced it (before the clamp it is whole only
\* for the silent window, -140); otherwise it lies strictly between LevelDb(w)
\* and LevelDb(w) + 1
Loud(w) ==
    IF RawDb(w) < -100 \/ RawDb(w) >= 0
    THEN LevelDb(w) > ThresholdDb
    ELSE LevelDb(w) >= ThresholdDb

\* one run of tick(): the analyser fills the window, _levelDb measures it,
\* onLevel is told, and the silence detection runs on db > vad.thresholdDb
LevelTick(a) ==
    /\ a \in meters
    /\ \E w \in Windows :
          /\ pcm' = w
          /\ level' = <<LevelDb(w)>>
          /\ TickBody(a, Loud(w))

LevelNext ==
    \/ StartVad
    \/ \E a \in Acqs : AcquireResolve(a)
    \/ \E a \in Acqs : LevelTick(a)

\* a recording under its metering loop, the measured window kept; the clock
\* stands still
LevelSpec == Init /\ [][LevelNext]_vars

\* C33: every loudness value reported on an analysis tick is at least -100
\* and at most 0 decibels.
C33_LevelWithinRange ==
    \A i \in 1..Len(level) : level[i] >= -100 /\ level[i] <= 0

\* C33 witness: ticks reported the floor for the all-zero window and the
\* ceiling for a window beyond full scale (two states)
C33_Witness ==
    /\ level # <<>>
    /\ \/ pcm = ZeroWindow /\ level[1] = -100 /\ RawDb(pcm) < -100
       \/ pcm = [i \in 1..WinLen |-> 10000] /\ level[1] = 0 /\ RawDb(pcm) > 0

----------------------------------------------------------------------------
\* C34: the stop callback of one recording, its cleanup included, leaves the
\* stream, the max-length timer and the metering loop of every other
\* recording as they were.
C34_StopCleanupSparesOtherRecording ==
    [][ \A a \in Acqs :
          (ph[a] = "stopStop" /\ ph'[a] = "done") =>
              \A x \in Acqs \ {a} :
                  /\ st[x] = "open" => st'[x] = "open"
                  /\ x \in timers => x \in timers'
                  /\ x \in meters => x \in meters'
      ]_vars

\* C34 witness: the stop callback of a cancelled recording has just run while
\* a recording started after the cancel holds the device, with its timer
\* armed and its metering loop running
C34_Witness ==
    /\ lastTask = "stale"
    /\ \E a \in Acqs : \E x \in Acqs \ {a} :
          /\ ph[a] = "done"
          /\ cancelledIn[a] # "no"
          /\ tok[x] > tok[a]
          /\ ph[x] = "recording"
          /\ st[x] = "open"
          /\ x \in timers
          /\ x \in meters

----------------------------------------------------------------------------
\* the getUserMedia calls that have not settled
PendingAcqs == {a \in Acqs : st[a] = "pending"}

\* C35: while a start() call is acquiring the device the start lock is held,
\* and no two acquisitions are in progress at once.
C35_LockHeldUntilSettled ==
    /\ Acquiring => startLockRef
    /\ Cardinality(PendingAcqs) <= 1

----------------------------------------------------------------------------
TriggerNext ==
    \/ Start
    \/ \E a \in Acqs : AcquireResolve(a)
    \/ LockTimerFire
    \/ Stop
    \/ \E a \in Acqs : MaxTimerFire(a)
    \/ \E a \in Acqs : Tick(a)
    \/ VisibilityChange
    \/ \E a \in Acqs : OnDataAvailable(a)
    \/ \E a \in Acqs : OnStop(a)
    \/ Advance

\* recordings that are started and stopped by every stop trigger: stop(), the
\* silence detection, the max-length timer and the tab being hidden
TriggerSpec == Init /\ [][TriggerNext]_vars

\* C36: at most one utterance is delivered per recording token, whatever stop
\* triggers fire: no two recorders share a token, a trigger that finds the
\* recorder stopped does not stop it again, and the stop callback hands an
\* utterance to the consumer only for a recorder that has delivered none.
C36_OneUtterancePerToken ==
    [][ /\ \A a \in Acqs : \A b \in Acqs :
              (tok'[a] # 0 /\ tok'[a] = tok'[b]) => a = b
        /\ \A a \in Acqs :
              /\ ph[a] = "stopStop" => ph'[a] \in {"stopStop", "done"}
              /\ ph[a] = "done" => ph'[a] = "done"
              /\ pipe'[a] # pipe[a] /\ ph'[a] # ph[a] =>
                    /\ pipe[a] = "none"
                    /\ ph[a] = "stopStop"
                    /\ ph'[a] = "done"
      ]_vars

\* C36 witness: the silence detection stopped the recorder of a, the tab was
\* hidden and the max-length timer is no longer armed, and one utterance of a
\* was handed to the consumer
C36_Witness ==
    \E a \in Acqs :
        /\ vadStops[a] = 1
        /\ hidden
        /\ a \notin timers
        /\ ph[a] = "done"
        /\ tok[a] # 0
        /\ pipe[a] \in PipeRunning

----------------------------------------------------------------------------
\* C37: the stored questionId is a question of the stored sessionId.
C37_QuestionBelongsToSession ==
    questionId # 0 => srvOwner[questionId] = sessionId

\* C38: lastScores is null or the score of the question that is stored.
C38_ScoreIsOfCurrentQuestion ==
    lastScores = 0 \/ lastScores = questionId

----------------------------------------------------------------------------
\* C39: once the component is unmounted no microphone stream is open, so no
\* recorder is recording from a live device.
C39_NothingHeldAfterUnmount == ~mounted => OpenStreams = {}

----------------------------------------------------------------------------
(* recordOnce({ maxMs }): record one utterance of at most maxMs             *)

onceFrame ==
    UNCHANGED <<hookVars, platVars, appVars, vadVars, histVars, ctlVars, statusErr,
                srvOwner, keyVars, hidden, pcm, level>>

\* the promise of call r has settled
OnceSettled(r) == onceOut[r] \in {"resolved", "rejected"}

\* recordOnce() is called, also while an earlier call is running; without
\* navigator.mediaDevices the call throws and the promise is rejected
OnceCall ==
    /\ onceCount < MaxOnce
    /\ onceCount' = onceCount + 1
    /\ IF env = "ok"
       THEN /\ onceSt' = [onceSt EXCEPT ![onceCount + 1] = "pending"]
            /\ onceOut' = [onceOut EXCEPT ![onceCount + 1] = "pending"]
       ELSE /\ onceSt' = [onceSt EXCEPT ![onceCount + 1] = "failed"]
            /\ onceOut' = [onceOut EXCEPT ![onceCount + 1] = "rejected"]
    /\ UNCHANGED <<oncePh, onceTimer>>
    /\ onceFrame

\* getUserMedia rejected
OnceAcquireReject(r) ==
    /\ onceSt[r] = "pending"
    /\ onceSt' = [onceSt EXCEPT ![r] = "failed"]
    /\ onceOut' = [onceOut EXCEPT ![r] = "rejected"]
    /\ UNCHANGED <<onceCount, oncePh, onceTimer>>
    /\ onceFrame

\* getUserMedia resolved, new MediaRecorder(stream, { mimeType }) throws
\* (NotSupportedError): the async function ends with the stream as it is
OnceCtorThrow(r) ==
    /\ onceSt[r] = "pending"
    /\ onceSt' = [onceSt EXCEPT ![r] = "open"]
    /\ onceOut' = [onceOut EXCEPT ![r] = "rejected"]
    /\ UNCHANGED <<onceCount, oncePh, onceTimer>>
    /\ onceFrame

\* getUserMedia resolved, the timer armed and the handlers set, rec.start()
\* throws inside the promise executor: the promise is rejected
OnceStartThrow(r) ==
    /\ onceSt[r] = "pending"
    /\ onceSt' = [onceSt EXCEPT ![r] = "open"]
    /\ onceTimer' = [onceTimer EXCEPT ![r] = TRUE]
    /\ onceOut' = [onceOut EXCEPT ![r] = "rejected"]
    /\ UNCHANGED <<onceCount, oncePh>>
    /\ onceFrame

\* getUserMedia resolved and the recorder started
OnceAcquireOk(r) ==
    /\ onceSt[r] = "pending"
    /\ onceSt' = [onceSt EXCEPT ![r] = "open"]
    /\ oncePh' = [oncePh EXCEPT ![r] = "recording"]
    /\ onceTimer' = [onceTimer EXCEPT ![r] = TRUE]
    /\ UNCHANGED <<onceCount, onceOut>>
    /\ onceFrame

\* setTimeout(() => { if (rec.state !== "inactive") rec.stop(); }, maxMs)
OnceTimerFire(r) ==
    /\ onceTimer[r]
    /\ onceTimer' = [onceTimer EXCEPT ![r] = FALSE]
    /\ oncePh' = IF oncePh[r] = "recording"
                 THEN [oncePh EXCEPT ![r] = "stopData"]
                 ELSE oncePh
    /\ UNCHANGED <<onceCount, onceSt, onceOut>>
    /\ onceFrame

\* the streams after stream.getTracks().forEach((t) => t.stop()) of call r
OnceTracksStopped(stv, r) == [stv EXCEPT ![r] = "closed"]

\* rec.onerror: the recorder failed while recording; it becomes inactive and
\* its dataavailable and stop events follow
OnceError(r) ==
    /\ oncePh[r] = "recording"
    /\ oncePh' = [oncePh EXCEPT ![r] = "stopData"]
    /\ onceTimer' = [onceTimer EXCEPT ![r] = FALSE]
    /\ onceSt' = OnceTracksStopped(onceSt, r)
    /\ onceOut' = [onceOut EXCEPT ![r] = "rejected"]
    /\ UNCHANGED onceCount
    /\ onceFrame

\* rec.ondataavailable
OnceData(r) ==
    /\ oncePh[r] = "stopData"
    /\ oncePh' = [oncePh EXCEPT ![r] = "stopStop"]
    /\ UNCHANGED <<onceCount, onceSt, onceTimer, onceOut>>
    /\ onceFrame

\* rec.onstop: resolve() of a promise that is settled changes nothing
OnceStop(r) ==
    /\ oncePh[r] = "stopStop"
    /\ oncePh' = [oncePh EXCEPT ![r] = "done"]
    /\ onceTimer' = [onceTimer EXCEPT ![r] = FALSE]
    /\ onceSt' = OnceTracksStopped(onceSt, r)
    /\ onceOut' = IF onceOut[r] = "pending"
                  THEN [onceOut EXCEPT ![r] = "resolved"]
                  ELSE onceOut
    /\ UNCHANGED onceCount
    /\ onceFrame

OnceNext ==
    \/ OnceCall
    \/ \E r \in OnceIds : OnceAcquireReject(r)
    \/ \E r \in OnceIds : OnceCtorThrow(r)
    \/ \E r \in OnceIds : OnceStartThrow(r)
    \/ \E r \in OnceIds : OnceAcquireOk(r)
    \/ \E r \in OnceIds : OnceTimerFire(r)
    \/ \E r \in OnceIds : OnceError(r)
    \/ \E r \in OnceIds : OnceData(r)
    \/ \E r \in OnceIds : OnceStop(r)

\* recordOnce alone
OnceSpec == Init /\ [][OnceNext]_vars

\* C40: whenever getUserMedia of a recordOnce call succeeded and the promise
\* the call returned has settled, the tracks of its stream are stopped.
C40_OnceReleasesDevice ==
    \A r \in OnceIds : OnceSettled(r) => onceSt[r] # "open"

====
